---- MODULE Spec2Model ----
(***************************************************************************)
(* State-machine model of src/bot.py: the per-guild character store with   *)
(* its death-save machine, levelling, long rest and spell-slot accounting, *)
(* the encounter tracker, and the asynchronous commands that suspend at a  *)
(* provider fetch (cast, char_create).                                     *)
(*                                                                         *)
(* Python dictionaries are functions whose DOMAIN is the set of keys       *)
(* present.  Character dictionaries are objects with identity: the store   *)
(* maps a key to an object id and `heap` maps an id to the object's        *)
(* fields, so that a coroutine suspended at an await keeps its reference   *)
(* to an object that was meanwhile deleted from or replaced in the store.  *)
(* Character fields that no modelled operation reads except to build a     *)
(* reply text (name, race, ac, skills, the five other ability scores) are  *)
(* left out of the object.                                                 *)
(***************************************************************************)
EXTENDS Integers, Sequences, FiniteSets, TLC

\* ------------------------------------------------------------------ bounds
\* Highest character level a levelup is explored to.
MaxLevel == 2
\* Number of coroutine slots (commands that can be suspended at once).
NumTasks == 2
\* Longest encounter order explored.
MaxOrder == 3
\* Most effects one combatant is given.
MaxEffects == 1
\* Combatant hit points are explored within -HPRange..HPRange.
HPRange == 3

\* Items an inventory holds at most.
MaxItems == 2

\* Commands of one run whose serial orders are compared with it.
MaxLog == 6

\* ------------------------------------------------------------ input sets
Guilds     == {"g1", "g2"}
DM         == "dm"                     \* a context with ctx.guild = None
Ctxs       == Guilds \cup {DM}
None       == "<None>"
GuildKeys  == Guilds \cup {"None"}     \* keys str(gid) can take
Names      == {"ann", "Ann", "orc"}    \* names as typed in a command
CharNames  == {"ann", "Ann"}           \* names given to char_create
Classes    == {"wizard", "warlock", "fighter"}
Spells     == {"bolt", "missile", "web"}   \* spells the provider knows
SpellArgs  == Spells \cup {"wish"}        \* spell names as typed
KnownSets  == {{}, Spells}             \* what pick_spells_for_class may return
ConBonuses == {-3, -2, 0, 4}              \* CON bonus the race lookup may return
DeathRolls == {1, 2, 9, 10, 19, 20}    \* representatives of random.randint(1,20)
CombatHPs  == {3}
Initiatives == {5, 10}
Amounts    == {3, 5}
HitRolls   == {1, 4, 8, 10}            \* representatives of random.randint(1, hd)
Tasks      == 1..NumTasks
CharKeys   == {"ann"}                 \* the lowercased CharNames
Ids        == 1..(Cardinality(Guilds) * Cardinality(CharKeys) + NumTasks)

VARIABLES characters, heap, combats, tasks, hist, last, log

vars == <<characters, heap, combats, tasks, hist, last, log>>

\* ------------------------------------------------------------- dictionaries
EmptyDict == [k \in {} |-> 0]

DictSet(d, k, v) == [x \in (DOMAIN d) \cup {k} |-> IF x = k THEN v ELSE d[x]]

DictDel(d, k) == [x \in (DOMAIN d) \ {k} |-> d[x]]

DictGet(d, k, default) == IF k \in DOMAIN d THEN d[k] ELSE default

\* str.lower() on the names of the model
Lower(s) == IF s = "Ann" THEN "ann" ELSE s

\* get_guild_id: the guild's id as a string, or None outside a guild
get_guild_id(ctx) == IF ctx = DM THEN None ELSE ctx

\* str(gid): str(None) is the string "None"
Str(gid) == IF gid = None THEN "None" ELSE gid

\* ------------------------------------------------------------ class tables
\* CLASS_FOCUS[cls]["hd"], with generate_character's default cf.get("hd", 8)
CLASS_FOCUS_hd(cls) ==
    CASE cls = "wizard"  -> 6
      [] cls = "warlock" -> 8
      [] cls = "fighter" -> 10
      [] OTHER           -> 8

\* LEVEL_UP_HP.get(cls, 6)
LEVEL_UP_HP(cls) ==
    CASE cls = "wizard"  -> 4
      [] cls = "warlock" -> 8
      [] cls = "fighter" -> 10
      [] OTHER           -> 6

\* A slot level used as a dictionary key: the int of the running program,
\* or the string json.dump turns it into.
IntKey(level) == <<"int", level>>

StrKey(level) == <<"str", level>>

\* the keys of CLASS_SPELL_SLOTS
SlotClasses == {"wizard", "sorcerer", "cleric", "warlock", "paladin", "fighter", "rogue"}

\* CLASS_SPELL_SLOTS[cls] for cls in SlotClasses
CLASS_SPELL_SLOTS(cls) ==
    CASE cls = "wizard" ->
           [k \in {IntKey(1), IntKey(2), IntKey(3)} |-> IF k = IntKey(1) THEN 2 ELSE 0]
      [] cls \in {"sorcerer", "cleric"} -> [k \in {IntKey(1)} |-> 2]
      [] cls = "warlock" -> [k \in {IntKey(1)} |-> 1]
      [] OTHER -> EmptyDict

\* CLASS_SPELL_SLOTS.get(cls, {})
ClassSlotsOrEmpty(cls) == IF cls \in SlotClasses THEN CLASS_SPELL_SLOTS(cls) ELSE EmptyDict

\* Mutant: the halving rounds towards zero.
get_con_mod_m(stat_value) ==
    IF stat_value >= 10 THEN (stat_value - 10) \div 2 ELSE 0 - ((10 - stat_value) \div 2)

\* get_con_mod: Python's // rounds towards minus infinity, as \div does
get_con_mod(stat_value) == (stat_value - 10) \div 2

NoSaves == [success |-> 0, failure |-> 0]

\* ------------------------------------------------------------------ tasks
IdleTask == [pc |-> "idle", op |-> "none", gid |-> "", name |-> "", arg |-> "",
             ref |-> 0, res |-> "", race |-> FALSE]

\* Object ids still referenced from the store or from a coroutine.
Referenced(chars, tsk) ==
    UNION {{chars[g][k] : k \in DOMAIN chars[g]} : g \in GuildKeys}
      \cup {tsk[t].ref : t \in Tasks}

\* Python frees an object once nothing refers to it.
Collect(h, chars, tsk) == [i \in (DOMAIN h) \cap Referenced(chars, tsk) |-> h[i]]

\* Mutant: the new dictionary takes the place of a live one.
NewId_m(h) == CHOOSE i \in Ids : \A j \in Ids : i <= j

\* id() of a freshly allocated dictionary
NewId(h) == CHOOSE i \in Ids \ DOMAIN h : \A j \in Ids \ DOMAIN h : i <= j

\* Mutant: the name is looked up in every guild, the guild given is ignored.
Lookup_m(gidstr, name) ==
    LET hits == {characters[g][Lower(name)] :
                   g \in {h \in GuildKeys : Lower(name) \in DOMAIN characters[h]}}
    IN IF hits = {} THEN 0 ELSE CHOOSE i \in hits : \A j \in hits : i <= j

\* characters.get(gidstr, {}).get(name.lower()): the object's id, 0 for None
Lookup(gidstr, name) == DictGet(characters[gidstr], Lower(name), 0)

\* A slot mutation by some other command ends a two-cast race on that object.
Disturb(tsk, id) ==
    [t \in Tasks |->
       IF tsk[t].ref = id /\ tsk[t].race
       THEN IF tsk[t].pc = "idle" THEN IdleTask ELSE [tsk[t] EXCEPT !.race = FALSE]
       ELSE tsk[t]]

\* What the last completed command replied: which of the program's messages
\* (or "Raised" for an exception) and, for a death save, the counters as line
\* 598 saved them, before the checks for 3.  In the specification's terms
\* CharNotFound, SpellNotKnown and CombatantNotFound are NotFound, NoSpellData
\* is ProviderUnavailable, NoSlot is InsufficientResource, NotAtZeroHP and
\* NoEncounter are StateConflict, ServerOnly is the rejection outside a guild.
Reply(res, mid) == [res |-> res, mid |-> mid]

\* History: the keys whose character died of failed death saves, and the keys
\* whose character stabilized and has since been neither damaged in an
\* encounter, nor rested, levelled or created anew.
Forget(h, gid, key) == [h EXCEPT !.stable = @ \ {<<gid, key>>}]

\* ------------------------------------------------------- character creation
\* cmd_char_create up to generate_character's first await
cmd_char_create(t, ctx, name, cls) ==
    /\ tasks[t].pc = "idle"
    /\ IF get_guild_id(ctx) = None
       THEN /\ last' = Reply("ServerOnly", NoSaves)
            /\ tasks' = [tasks EXCEPT ![t] = IdleTask]
            /\ heap' = Collect(heap, characters, tasks')
            /\ UNCHANGED <<characters, combats, hist>>
       ELSE /\ tasks' = [tasks EXCEPT ![t] =
                           [IdleTask EXCEPT !.pc = "await", !.op = "char_create",
                                            !.gid = Str(get_guild_id(ctx)),
                                            !.name = name, !.arg = cls]]
            /\ heap' = Collect(heap, characters, tasks')
            /\ UNCHANGED <<characters, combats, hist, last>>

\* the dictionary generate_character builds (lines 241-270): conBonus is the
\* race's CON bonus, known the spells picked for the class
NewCharacter(cls, conBonus, known) ==
    LET hp    == CLASS_FOCUS_hd(cls)
        slots == IF cls \in SlotClasses /\ DOMAIN CLASS_SPELL_SLOTS(cls) # {}
                 THEN CLASS_SPELL_SLOTS(cls) ELSE EmptyDict
    IN [class |-> cls, level |-> 1, hp |-> hp, max_hp |-> hp,
        con |-> 10 + conBonus, spells |-> known, slots |-> slots,
        inventory |-> <<>>, death_saves |-> NoSaves]

\* generate_character after its last await (the race, skill and spell
\* lookups read no program state), and the rest of cmd_char_create
generate_character(t, conBonus, known) ==
    /\ tasks[t].pc = "await"
    /\ tasks[t].op = "char_create"
    /\ LET gid  == tasks[t].gid
           key  == Lower(tasks[t].name)
           cls  == tasks[t].arg
           char == NewCharacter(cls, conBonus, known)
           tsk  == [tasks EXCEPT ![t] = IdleTask]
           id   == NewId(Collect(heap, [characters EXCEPT ![gid] = DictDel(@, key)], tsk))
       IN /\ characters' = [characters EXCEPT ![gid] = DictSet(@, key, id)]
          /\ tasks' = tsk
          /\ heap' = Collect(DictSet(heap, id, char), characters', tasks')
          /\ hist' = Forget(hist, gid, key)
          /\ last' = Reply("created", NoSaves)
          /\ UNCHANGED combats

\* ---------------------------------------------------------------- levelling
\* level_up_character on an existing character object
LevelUpObject(c, r) ==
    LET cls     == c.class
        rolled  == r + get_con_mod(c.con)
        hp_gain == IF rolled < 1 THEN 1 ELSE rolled
        max_hp  == c.max_hp + hp_gain
        slots   == IF cls \in SlotClasses
                   THEN DictSet(c.slots, IntKey(1), DictGet(c.slots, IntKey(1), 0) + 1)
                   ELSE c.slots
    IN [c EXCEPT !.level = c.level + 1, !.max_hp = max_hp, !.hp = max_hp, !.slots = slots]

\* cmd_levelup / level_up_character; r is random.randint(1, hd)
level_up_character(ctx, name, r) ==
    LET gid == Str(get_guild_id(ctx))
        id  == Lookup(gid, name)
    IN IF id = 0
       THEN /\ last' = Reply("CharNotFound", NoSaves)
            /\ UNCHANGED <<characters, heap, combats, tasks, hist>>
       ELSE /\ heap[id].level < MaxLevel
            /\ r \in 1..LEVEL_UP_HP(heap[id].class)
            /\ heap' = [heap EXCEPT ![id] = LevelUpObject(@, r)]
            /\ tasks' = Disturb(tasks, id)
            /\ hist' = Forget(hist, gid, Lower(name))
            /\ last' = Reply("levelled", NoSaves)
            /\ UNCHANGED <<characters, combats>>

\* ---------------------------------------------------------------- long rest
\* the slots and hit points a long rest leaves
\* Mutant: the defaults are written into the mapping the character has.
LongRestObject_m(c) ==
    LET def == ClassSlotsOrEmpty(c.class)
    IN [c EXCEPT !.slots = [k \in (DOMAIN c.slots) \cup (DOMAIN def) |->
                              IF k \in DOMAIN def THEN def[k] ELSE c.slots[k]],
                 !.hp = c.max_hp]

LongRestObject(c) == [c EXCEPT !.slots = ClassSlotsOrEmpty(c.class), !.hp = c.max_hp]

\* Mutant: the lookup inserts a fresh level-1 character when none is stored.
cmd_longrest_m(ctx, name) ==
    LET gid == Str(get_guild_id(ctx))
        id  == Lookup(gid, name)
        new == NewId(heap)
        char == [class |-> "wizard", level |-> 1, hp |-> 10, max_hp |-> 10, con |-> 10,
                 spells |-> {}, slots |-> EmptyDict, inventory |-> <<>>,
                 death_saves |-> NoSaves]
    IN IF id = 0
       THEN /\ get_guild_id(ctx) # None
            /\ characters' = [characters EXCEPT ![gid] = DictSet(@, Lower(name), new)]
            /\ heap' = DictSet(heap, new, char)
            /\ last' = Reply("rested", NoSaves)
            /\ UNCHANGED <<combats, tasks, hist>>
       ELSE /\ heap' = [heap EXCEPT ![id] = LongRestObject(@)]
            /\ tasks' = Disturb(tasks, id)
            /\ hist' = Forget(hist, gid, Lower(name))
            /\ last' = Reply("rested", NoSaves)
            /\ UNCHANGED <<characters, combats>>

cmd_longrest(ctx, name) ==
    LET gid == Str(get_guild_id(ctx))
        id  == Lookup(gid, name)
    IN IF id = 0
       THEN /\ last' = Reply("CharNotFound", NoSaves)
            /\ UNCHANGED <<characters, heap, combats, tasks, hist>>
       ELSE /\ heap' = [heap EXCEPT ![id] = LongRestObject(@)]
            /\ tasks' = Disturb(tasks, id)
            /\ hist' = Forget(hist, gid, Lower(name))
            /\ last' = Reply("rested", NoSaves)
            /\ UNCHANGED <<characters, combats>>

\* -------------------------------------------------------------- death saves
\* Mutant: a natural 1 counted as a single failure.
DeathSaveTable_m(ds, roll) ==
    IF roll >= 10 THEN [ds EXCEPT !.success = @ + 1]
    ELSE [ds EXCEPT !.failure = @ + 1]

\* the if/elif chain on the roll, for a roll other than 20
DeathSaveTable(ds, roll) ==
    IF roll = 1 THEN [ds EXCEPT !.failure = @ + 2]
    ELSE IF roll >= 10 THEN [ds EXCEPT !.success = @ + 1]
    ELSE [ds EXCEPT !.failure = @ + 1]

\* Mutant: stable only after more than three successes.
ThreeSuccesses_m(ds) == ds.success > 3

\* `if ds["success"] >= 3`
ThreeSuccesses(ds) == ds.success >= 3

\* Mutant: death only after more than three failures.
ThreeFailures_m(ds) == ds.failure > 3

\* `if ds["failure"] >= 3`
ThreeFailures(ds) == ds.failure >= 3

\* Mutant: a character at 1 hp may still roll death saves.
NotDying_m(c) == c.hp > 1

\* `if char.get("hp",1) > 0`
NotDying(c) == c.hp > 0

cmd_deathsave(ctx, name, roll) ==
    LET gid == Str(get_guild_id(ctx))
        key == Lower(name)
        id  == Lookup(gid, name)
    IN IF id = 0
       THEN /\ last' = Reply("CharNotFound", NoSaves)
            /\ UNCHANGED <<characters, heap, combats, tasks, hist>>
       ELSE IF NotDying(heap[id])
       THEN /\ last' = Reply("NotAtZeroHP", NoSaves)
            /\ UNCHANGED <<characters, heap, combats, tasks, hist>>
       ELSE IF roll = 20
       THEN /\ heap' = [heap EXCEPT ![id].hp = 1, ![id].death_saves = NoSaves]
            /\ hist' = Forget(hist, gid, key)
            /\ last' = Reply("revived", NoSaves)
            /\ UNCHANGED <<characters, combats, tasks>>
       ELSE LET ds == DeathSaveTable(heap[id].death_saves, roll)
            IN IF ThreeSuccesses(ds)
               THEN /\ heap' = [heap EXCEPT ![id].death_saves = NoSaves]
                    /\ hist' = [hist EXCEPT !.stable = @ \cup {<<gid, key>>}]
                    /\ last' = Reply("stabilized", ds)
                    /\ UNCHANGED <<characters, combats, tasks>>
               ELSE IF ThreeFailures(ds)
               THEN /\ characters' = [characters EXCEPT ![gid] = DictDel(@, key)]
                    /\ heap' = Collect([heap EXCEPT ![id].death_saves = ds], characters', tasks)
                    /\ hist' = [dead |-> hist.dead \cup {<<gid, key>>},
                                stable |-> hist.stable \ {<<gid, key>>}]
                    /\ last' = Reply("died", ds)
                    /\ UNCHANGED <<combats, tasks>>
               ELSE /\ heap' = [heap EXCEPT ![id].death_saves = ds]
                    /\ last' = Reply("rolled", ds)
                    /\ UNCHANGED <<characters, combats, tasks, hist>>

\* ------------------------------------------------------------------ combat
\* Mutant: a new entry goes in front of the entries it ties with.
RECURSIVE InsertDesc_m(_, _)
InsertDesc_m(sorted, e) ==
    IF sorted = <<>> THEN <<e>>
    ELSE IF Head(sorted).initiative > e.initiative
         THEN <<Head(sorted)>> \o InsertDesc_m(Tail(sorted), e)
         ELSE <<e>> \o sorted

\* Where e goes in a sequence sorted by initiative, high to low, so that it
\* follows every entry it does not beat.
RECURSIVE InsertDesc(_, _)
InsertDesc(sorted, e) ==
    IF sorted = <<>> THEN <<e>>
    ELSE IF Head(sorted).initiative >= e.initiative
         THEN <<Head(sorted)>> \o InsertDesc(Tail(sorted), e)
         ELSE <<e>> \o sorted

\* list.sort(key=initiative, reverse=True): a stable sort of the whole list
RECURSIVE SortDesc(_)
SortDesc(order) ==
    IF order = <<>> THEN <<>>
    ELSE InsertDesc(SortDesc(SubSeq(order, 1, Len(order) - 1)), order[Len(order)])

\* index of the first entry whose lowercased name matches, 0 if none
FirstMatch(order, name) ==
    IF \E i \in 1..Len(order) : Lower(order[i].name) = Lower(name)
    THEN CHOOSE i \in 1..Len(order) :
           /\ Lower(order[i].name) = Lower(name)
           /\ \A j \in 1..(i - 1) : Lower(order[j].name) # Lower(name)
    ELSE 0

NewCombat == [turn |-> 0, order |-> <<>>]

\* ensure_combat
ensure_combat(cmb, gidstr) == IF gidstr \in DOMAIN cmb THEN cmb ELSE DictSet(cmb, gidstr, NewCombat)

\* cmd_combat_start: it has no guild check, so outside a guild gid is None
\* and the key is str(None)
cmd_combat_start(ctx) ==
    LET gid == Str(get_guild_id(ctx))
    IN /\ combats' = DictSet(ensure_combat(combats, gid), gid, NewCombat)
       /\ last' = Reply("started", NoSaves)
       /\ UNCHANGED <<characters, heap, tasks, hist>>

\* cmd_combat_add; ac = 0 stands for an omitted (or zero) ac argument
cmd_combat_add(ctx, name, hp, initiative, ac) ==
    LET gid == Str(get_guild_id(ctx))
        ent == [name |-> name, hp |-> hp, initiative |-> initiative,
                effects |-> <<>>, ac |-> IF ac # 0 THEN ac ELSE 10]
    IN IF get_guild_id(ctx) = None
       THEN /\ last' = Reply("ServerOnly", NoSaves)
            /\ UNCHANGED <<characters, heap, combats, tasks, hist>>
       ELSE LET cmb == ensure_combat(combats, gid)
            IN /\ Len(cmb[gid].order) < MaxOrder
               /\ combats' = [cmb EXCEPT ![gid].order = SortDesc(Append(@, ent))]
               /\ last' = Reply("added", NoSaves)
               /\ UNCHANGED <<characters, heap, tasks, hist>>

\* the guard shared by the combat commands that need an encounter
NoEncounter(ctx) == get_guild_id(ctx) = None \/ Str(get_guild_id(ctx)) \notin DOMAIN combats

\* Mutant: the character is left below 0 hit points.
MarkDying_neg(h, id) == [h EXCEPT ![id].hp = -1, ![id].death_saves = NoSaves]

\* Mutant: the hit points are zeroed but the counters are kept.
MarkDying_m(h, id) == [h EXCEPT ![id].hp = 0]

\* lines 478-484: the character of that name, if stored, starts dying
MarkDying(h, id) == [h EXCEPT ![id].hp = 0, ![id].death_saves = NoSaves]

cmd_combat_damage(ctx, name, amount) ==
    LET gid == Str(get_guild_id(ctx))
    IN IF NoEncounter(ctx)
       THEN /\ last' = Reply("NoEncounter", NoSaves)
            /\ UNCHANGED <<characters, heap, combats, tasks, hist>>
       ELSE LET i == FirstMatch(combats[gid].order, name)
            IN IF i = 0
               THEN /\ last' = Reply("CombatantNotFound", NoSaves)
                    /\ UNCHANGED <<characters, heap, combats, tasks, hist>>
               ELSE LET hp == combats[gid].order[i].hp - amount
                        id == Lookup(gid, name)
                    IN /\ hp >= -HPRange /\ hp <= HPRange
                       /\ combats' = [combats EXCEPT ![gid].order[i].hp = hp]
                       /\ heap' = IF hp <= 0 /\ id # 0 THEN MarkDying(heap, id) ELSE heap
                       /\ hist' = IF id # 0 THEN Forget(hist, gid, Lower(name)) ELSE hist
                       /\ last' = Reply(IF hp <= 0 THEN "down" ELSE "damaged", NoSaves)
                       /\ UNCHANGED <<characters, tasks>>

\* Mutant: healing also writes the combatant's hit points to the character.
cmd_combat_heal_m(ctx, name, amount) ==
    LET gid == Str(get_guild_id(ctx))
    IN IF NoEncounter(ctx)
       THEN /\ last' = Reply("NoEncounter", NoSaves)
            /\ UNCHANGED <<characters, heap, combats, tasks, hist>>
       ELSE LET i == FirstMatch(combats[gid].order, name)
            IN IF i = 0
               THEN /\ last' = Reply("CombatantNotFound", NoSaves)
                    /\ UNCHANGED <<characters, heap, combats, tasks, hist>>
               ELSE LET hp == combats[gid].order[i].hp + amount
                        id == Lookup(gid, name)
                    IN /\ hp >= -HPRange /\ hp <= HPRange
                       /\ combats' = [combats EXCEPT ![gid].order[i].hp = hp]
                       /\ heap' = IF id # 0 THEN [heap EXCEPT ![id].hp = hp] ELSE heap
                       /\ last' = Reply("healed", NoSaves)
                       /\ UNCHANGED <<characters, tasks, hist>>

cmd_combat_heal(ctx, name, amount) ==
    LET gid == Str(get_guild_id(ctx))
    IN IF NoEncounter(ctx)
       THEN /\ last' = Reply("NoEncounter", NoSaves)
            /\ UNCHANGED <<characters, heap, combats, tasks, hist>>
       ELSE LET i == FirstMatch(combats[gid].order, name)
            IN IF i = 0
               THEN /\ last' = Reply("CombatantNotFound", NoSaves)
                    /\ UNCHANGED <<characters, heap, combats, tasks, hist>>
               ELSE LET hp == combats[gid].order[i].hp + amount
                    IN /\ hp >= -HPRange /\ hp <= HPRange
                       /\ combats' = [combats EXCEPT ![gid].order[i].hp = hp]
                       /\ last' = Reply("healed", NoSaves)
                       /\ UNCHANGED <<characters, heap, tasks, hist>>

\* Mutant: the turn pointer is advanced without wrapping.
NextTurn_m(c) == c.turn + 1

\* Mutant: the turn passes over a combatant that is down.
NextTurn_skip(c) ==
    LET n   == Len(c.order)
        nxt == (c.turn + 1) % n
    IN IF c.order[nxt + 1].hp <= 0 THEN (nxt + 1) % n ELSE nxt

\* `(c["turn"] + 1) % len(c["order"])`
NextTurn(c) == (c.turn + 1) % Len(c.order)

\* the guard of cmd_combat_next (and cmd_combat_status): no guild, no
\* encounter, or an empty order
NoTurn(ctx) ==
    \/ get_guild_id(ctx) = None
    \/ Str(get_guild_id(ctx)) \notin DOMAIN combats
    \/ combats[Str(get_guild_id(ctx))].order = <<>>

cmd_combat_next(ctx) ==
    LET gid == Str(get_guild_id(ctx))
    IN IF NoTurn(ctx)
       THEN /\ last' = Reply("NoTurn", NoSaves)
            /\ UNCHANGED <<characters, heap, combats, tasks, hist>>
       ELSE /\ combats' = [combats EXCEPT ![gid].turn = NextTurn(combats[gid])]
            /\ last' = Reply("turn", NoSaves)
            /\ UNCHANGED <<characters, heap, tasks, hist>>

cmd_combat_effect(ctx, name, effect) ==
    LET gid == Str(get_guild_id(ctx))
    IN IF NoEncounter(ctx)
       THEN /\ last' = Reply("NoEncounter", NoSaves)
            /\ UNCHANGED <<characters, heap, combats, tasks, hist>>
       ELSE LET i == FirstMatch(combats[gid].order, name)
            IN IF i = 0
               THEN /\ last' = Reply("CombatantNotFound", NoSaves)
                    /\ UNCHANGED <<characters, heap, combats, tasks, hist>>
               ELSE /\ Len(combats[gid].order[i].effects) < MaxEffects
                    /\ combats' = [combats EXCEPT ![gid].order[i].effects = Append(@, effect)]
                    /\ last' = Reply("effect", NoSaves)
                    /\ UNCHANGED <<characters, heap, tasks, hist>>

cmd_combat_setac(ctx, name, ac) ==
    LET gid == Str(get_guild_id(ctx))
    IN IF NoEncounter(ctx)
       THEN /\ last' = Reply("NoEncounter", NoSaves)
            /\ UNCHANGED <<characters, heap, combats, tasks, hist>>
       ELSE LET i == FirstMatch(combats[gid].order, name)
            IN IF i = 0
               THEN /\ last' = Reply("CombatantNotFound", NoSaves)
                    /\ UNCHANGED <<characters, heap, combats, tasks, hist>>
               ELSE /\ combats' = [combats EXCEPT ![gid].order[i].ac = ac]
                    /\ last' = Reply("ac", NoSaves)
                    /\ UNCHANGED <<characters, heap, tasks, hist>>

cmd_combat_end(ctx) ==
    LET gid == Str(get_guild_id(ctx))
    IN IF NoEncounter(ctx)
       THEN /\ last' = Reply("NoEncounter", NoSaves)
            /\ UNCHANGED <<characters, heap, combats, tasks, hist>>
       ELSE /\ combats' = DictDel(combats, gid)
            /\ last' = Reply("ended", NoSaves)
            /\ UNCHANGED <<characters, heap, tasks, hist>>

\* ------------------------------------------------------------ spell details
\* detail["level"] as the provider reports it for each spell
SpellLevel(spell) == CASE spell = "bolt" -> 0 [] spell = "missile" -> 1 [] OTHER -> 2

NoExpr == "<None>"

\* The shapes of detail["damage"] and detail["desc"] the provider may return:
\* has_slot / has_chr say whether damage_at_slot_level /
\* damage_at_character_level is a dict, chr lists the latter's values in order.
Shapes ==
    { [has_slot |-> TRUE, slot |-> [k \in {StrKey(1), StrKey(2)} |-> "3d4+3"],
       has_chr |-> FALSE, chr |-> <<>>, desc |-> <<"text">>],
      [has_slot |-> TRUE, slot |-> [k \in {StrKey(1), StrKey(2)} |-> "2d8+MOD"],
       has_chr |-> FALSE, chr |-> <<>>, desc |-> <<"text">>],
      [has_slot |-> TRUE, slot |-> [k \in {StrKey(3)} |-> "8d6"],
       has_chr |-> TRUE, chr |-> <<"1d6">>, desc |-> <<"text">>],
      [has_slot |-> FALSE, slot |-> EmptyDict,
       has_chr |-> TRUE, chr |-> <<"1d10", "2d10">>, desc |-> <<"text">>],
      [has_slot |-> FALSE, slot |-> EmptyDict,
       has_chr |-> FALSE, chr |-> <<>>, desc |-> <<"text">>],
      [has_slot |-> FALSE, slot |-> EmptyDict,
       has_chr |-> FALSE, chr |-> <<>>, desc |-> <<>>] }

\* get_damage_expr_from_spell; slot_level 0 is falsy
get_damage_expr_from_spell(detail, slot_level) ==
    IF detail.has_slot /\ slot_level # 0
    THEN DictGet(detail.slot, StrKey(slot_level), NoExpr)
    ELSE IF detail.has_chr /\ detail.chr # <<>>
    THEN detail.chr[1]
    ELSE NoExpr

\* parse_simple_dice accepts [N]dS[+-M]: of the expressions above, all but
\* the one with a non-numeric modifier
parse_simple_dice_ok(expr) == expr \in {"3d4+3", "8d6", "1d6", "1d10", "2d10"}

\* cast_spell_for_char after the slot step: which text the reply carries, or
\* that desc[0] raised IndexError
LaterSteps(detail, level) ==
    LET dmg_expr == get_damage_expr_from_spell(detail, level)
    IN IF dmg_expr # NoExpr
       THEN IF parse_simple_dice_ok(dmg_expr) THEN "damage" ELSE "expr"
       ELSE IF detail.desc = <<>> THEN "raised" ELSE "desc"

\* ------------------------------------------------------------------ casting
\* The other coroutines suspended in a cast of a spell of the same level on
\* the same object.
Rivals(t, id, level) ==
    {u \in Tasks \ {t} : /\ tasks[u].pc = "await" /\ tasks[u].op = "cast"
                         /\ tasks[u].ref = id /\ SpellLevel(tasks[u].arg) = level}

\* cmd_cast and cast_spell_for_char up to `await fetch_spell_detail`.  The
\* race flag records that this cast and exactly one other are suspended on
\* the same object and level while that level has exactly one slot.
cmd_cast(t, ctx, name, spell) ==
    LET gid == Str(get_guild_id(ctx))
        id  == Lookup(gid, name)
    IN /\ tasks[t].pc = "idle"
       /\ IF get_guild_id(ctx) = None
          THEN /\ last' = Reply("ServerOnly", NoSaves)
               /\ tasks' = [tasks EXCEPT ![t] = IdleTask]
               /\ heap' = Collect(heap, characters, tasks')
               /\ UNCHANGED <<characters, combats, hist>>
          ELSE IF id = 0
          THEN /\ last' = Reply("CharNotFound", NoSaves)
               /\ tasks' = [tasks EXCEPT ![t] = IdleTask]
               /\ heap' = Collect(heap, characters, tasks')
               /\ UNCHANGED <<characters, combats, hist>>
          ELSE IF spell \notin heap[id].spells
          THEN /\ last' = Reply("SpellNotKnown", NoSaves)
               /\ tasks' = [tasks EXCEPT ![t] = IdleTask]
               /\ heap' = Collect(heap, characters, tasks')
               /\ UNCHANGED <<characters, combats, hist>>
          ELSE LET level == SpellLevel(spell)
                   riv   == Rivals(t, id, level)
                   pair  == /\ level > 0 /\ Cardinality(riv) = 1
                            /\ DictGet(heap[id].slots, IntKey(level), 0) = 1
               IN /\ tasks' = [u \in Tasks |->
                                 IF u = t
                                 THEN [IdleTask EXCEPT !.pc = "await", !.op = "cast", !.gid = gid,
                                                       !.name = name, !.arg = spell, !.ref = id,
                                                       !.race = pair]
                                 ELSE IF u \in riv THEN [tasks[u] EXCEPT !.race = pair]
                                 ELSE tasks[u]]
                  /\ heap' = Collect(heap, characters, tasks')
                  /\ UNCHANGED <<characters, combats, hist, last>>

\* Mutant: the slot check lets a count of 0 through.
HasSlot_m(slots, level) == DictGet(slots, IntKey(level), 0) >= 0

\* `available <= 0` negated: a slot of that level is left
HasSlot(slots, level) == DictGet(slots, IntKey(level), 0) > 0

\* Mutant: the decremented count is not written back.
ConsumeSlot_m(slots, level) == slots

\* `slots[level] = available - 1`
ConsumeSlot(slots, level) == DictSet(slots, IntKey(level), DictGet(slots, IntKey(level), 0) - 1)

\* Mutant: the slot is taken before the provider's answer is looked at.
Spends_m(fetched, level, slots) == level > 0 /\ HasSlot(slots, level)

\* whether the cast reaches `slots[level] = available - 1`
Spends(fetched, level, slots) == fetched /\ level > 0 /\ HasSlot(slots, level)

\* the replies of a cast that got past the slot step
CastDone == {"cast_damage", "cast_expr", "cast_desc", "Raised"}

\* cast_spell_for_char from the return of `await fetch_spell_detail` on;
\* fetched = FALSE is a provider that returned nothing
cast_spell_for_char(t, fetched, shape) ==
    /\ tasks[t].pc = "await"
    /\ tasks[t].op = "cast"
    /\ LET id    == tasks[t].ref
           level == SpellLevel(tasks[t].arg)
           c     == heap[id]
           later == LaterSteps(shape, level)
           res   == IF ~fetched THEN "NoSpellData"
                    ELSE IF level > 0 /\ ~HasSlot(c.slots, level) THEN "NoSlot"
                    ELSE IF later = "raised" THEN "Raised"
                    ELSE IF later = "damage" THEN "cast_damage"
                    ELSE IF later = "expr" THEN "cast_expr"
                    ELSE "cast_desc"
           spent == Spends(fetched, level, c.slots)
           h     == IF spent THEN [heap EXCEPT ![id].slots = ConsumeSlot(@, level)] ELSE heap
           raced == tasks[t].race /\ fetched
           done  == IF raced THEN [tasks[t] EXCEPT !.pc = "idle", !.res = res] ELSE IdleTask
           tsk   == [tasks EXCEPT ![t] = done]
       IN /\ tasks' = IF (spent /\ ~tasks[t].race) \/ (tasks[t].race /\ ~fetched)
                      THEN Disturb(tsk, id) ELSE tsk
          /\ heap' = Collect(h, characters, tasks')
          /\ last' = Reply(res, NoSaves)
          /\ UNCHANGED <<characters, combats, hist>>

\* ---------------------------------------------------------------- inventory
\* cmd_inv_add_api up to `await fetch_item_detail`: it has no guild check,
\* and it keeps the character object it looked up
cmd_inv_add_api(t, ctx, name, item_name) ==
    LET gid == Str(get_guild_id(ctx))
        id  == Lookup(gid, name)
    IN /\ tasks[t].pc = "idle"
       /\ IF id = 0
          THEN /\ last' = Reply("CharNotFound", NoSaves)
               /\ tasks' = [tasks EXCEPT ![t] = IdleTask]
               /\ heap' = Collect(heap, characters, tasks')
               /\ UNCHANGED <<characters, combats, hist>>
          ELSE /\ tasks' = [tasks EXCEPT ![t] =
                              [IdleTask EXCEPT !.pc = "await", !.op = "inv_add_api", !.gid = gid,
                                               !.name = name, !.arg = item_name, !.ref = id]]
               /\ heap' = Collect(heap, characters, tasks')
               /\ UNCHANGED <<characters, combats, hist, last>>

\* `char.setdefault("inventory", []).append(item_obj)`
AddItem(c, item) == [c EXCEPT !.inventory = Append(@, item)]

\* cmd_inv_add_api from the return of `await fetch_item_detail` on; detail =
\* FALSE is a provider that returned nothing
fetch_item_detail(t, detail) ==
    /\ tasks[t].pc = "await"
    /\ tasks[t].op = "inv_add_api"
    /\ LET id == tasks[t].ref
       IN /\ detail => Len(heap[id].inventory) < MaxItems
          /\ tasks' = [tasks EXCEPT ![t] = IdleTask]
          /\ heap' = Collect(IF detail THEN [heap EXCEPT ![id] = AddItem(@, tasks[t].arg)]
                             ELSE heap,
                             characters, tasks')
          /\ last' = Reply(IF detail THEN "item_added" ELSE "NoItemData", NoSaves)
          /\ UNCHANGED <<characters, combats, hist>>

\* -------------------------------------------------------------- persistence
\* A slot mapping written by json.dump and read back by json.load: every key
\* becomes its string.  Where an int key and its string are both present the
\* int key was inserted later (only a load makes string keys, and it makes
\* the whole mapping), so its value is the one the load keeps.
JsonSlots(slots) ==
    [k \in {StrKey(key[2]) : key \in DOMAIN slots} |->
       IF IntKey(k[2]) \in DOMAIN slots THEN slots[IntKey(k[2])] ELSE slots[k]]

\* A character written and read back: the other fields are strings, ints,
\* lists and string-keyed dictionaries and come back as they were.
JsonChar(c) == [c EXCEPT !.slots = JsonSlots(@)]

\* The process ends, with whatever commands were suspended, and starts
\* again: load_data reads what the last save_data wrote, which is the store
\* as it stands (every command saves after its writes).
load_data ==
    /\ tasks' = [t \in Tasks |-> IdleTask]
    /\ heap' = [i \in DOMAIN Collect(heap, characters, tasks') |-> JsonChar(heap[i])]
    /\ last' = Reply("loaded", NoSaves)
    /\ UNCHANGED <<characters, combats, hist>>

\* ---------------------------------------------------------- serial execution
\* A command as issued, with what its random draws and the provider gave it:
\* a is the class, spell or item, k the spells picked, f whether the provider
\* answered, n and m the roll, CON bonus, amount, hit points and initiative.
Cmd(op, name, a, k, f, n, m) ==
    [op |-> op, name |-> name, a |-> a, k |-> k, f |-> f, n |-> n, m |-> m]

\* The commands completed so far, as a multiset.
Logged(c) == DictSet(log, c, DictGet(log, c, 0) + 1)

RECURSIVE LogSize(_)
LogSize(lg) ==
    IF DOMAIN lg = {} THEN 0
    ELSE LET c == CHOOSE x \in DOMAIN lg : TRUE IN lg[c] + LogSize(DictDel(lg, c))

\* The store by value: every guild's characters, and the encounters.
StoreView ==
    [chars   |-> [g \in GuildKeys |-> [k \in DOMAIN characters[g] |-> heap[characters[g][k]]]],
     combats |-> combats]

EmptyStore == [chars |-> [g \in GuildKeys |-> EmptyDict], combats |-> EmptyDict]

\* The guild whose commands are logged.
SerialGuild == "g1"

\* One command run from its first line to its last with no other command in
\* between, on a store held by value.
Run(st, c) ==
    LET gid == SerialGuild
        key == Lower(c.name)
        has == key \in DOMAIN st.chars[gid]
        ch  == st.chars[gid][key]
        put(new) == [st EXCEPT !.chars[gid] = DictSet(@, key, new)]
    IN CASE c.op = "char_create" -> put(NewCharacter(c.a, c.n, c.k))
         [] c.op = "cast" ->
              IF has /\ c.a \in ch.spells /\ Spends(c.f, SpellLevel(c.a), ch.slots)
              THEN put([ch EXCEPT !.slots = ConsumeSlot(@, SpellLevel(c.a))])
              ELSE st
         [] c.op = "inv_add_api" -> IF has /\ c.f THEN put(AddItem(ch, c.a)) ELSE st
         [] c.op = "levelup" -> IF has THEN put(LevelUpObject(ch, c.n)) ELSE st
         [] c.op = "longrest" -> IF has THEN put(LongRestObject(ch)) ELSE st
         [] c.op = "deathsave" ->
              IF ~has THEN st
              ELSE IF NotDying(ch) THEN st
              ELSE IF c.n = 20 THEN put([ch EXCEPT !.hp = 1, !.death_saves = NoSaves])
              ELSE LET ds == DeathSaveTable(ch.death_saves, c.n)
                   IN IF ThreeSuccesses(ds) THEN put([ch EXCEPT !.death_saves = NoSaves])
                      ELSE IF ThreeFailures(ds)
                      THEN [st EXCEPT !.chars[gid] = DictDel(@, key)]
                      ELSE put([ch EXCEPT !.death_saves = ds])
         [] c.op = "combat_add" ->
              LET ent == [name |-> c.name, hp |-> c.n, initiative |-> c.m,
                          effects |-> <<>>, ac |-> 10]
                  cmb == ensure_combat(st.combats, gid)
              IN [st EXCEPT !.combats = [cmb EXCEPT ![gid].order = SortDesc(Append(@, ent))]]
         [] c.op = "combat_damage" ->
              IF gid \notin DOMAIN st.combats THEN st
              ELSE LET i == FirstMatch(st.combats[gid].order, c.name)
                   IN IF i = 0 THEN st
                      ELSE LET hp  == st.combats[gid].order[i].hp - c.n
                               hit == [st EXCEPT !.combats[gid].order[i].hp = hp]
                           IN IF hp <= 0 /\ has
                              THEN [hit EXCEPT !.chars[gid] =
                                      DictSet(@, key, [ch EXCEPT !.hp = 0,
                                                                 !.death_saves = NoSaves])]
                              ELSE hit
         [] OTHER -> st

\* The logged commands in a row, each as often as it was logged.
RECURSIVE LogSeq(_)
LogSeq(lg) ==
    IF DOMAIN lg = {} THEN <<>>
    ELSE LET c == CHOOSE x \in DOMAIN lg : TRUE
         IN [i \in 1..lg[c] |-> c] \o LogSeq(DictDel(lg, c))

\* cmds with its i-th command taken out
Rest(cmds, i) == [j \in 1..(Len(cmds) - 1) |-> IF j < i THEN cmds[j] ELSE cmds[j + 1]]

\* Whether the commands cmds, run one after another in some order from st,
\* end in the store target.
RECURSIVE SerialReaches(_, _, _)
SerialReaches(st, cmds, target) ==
    IF cmds = <<>> THEN st = target
    ELSE \E i \in 1..Len(cmds) :
           \E nxt \in {Run(st, cmds[i])} : SerialReaches(nxt, Rest(cmds, i), target)

\* ------------------------------------------------------------ specification
\* load_data() at startup with no data file
Init ==
    /\ characters = [g \in GuildKeys |-> EmptyDict]
    /\ heap = EmptyDict
    /\ combats = EmptyDict
    /\ tasks = [t \in Tasks |-> IdleTask]
    /\ hist = [dead |-> {}, stable |-> {}]
    /\ last = Reply("", NoSaves)
    /\ log = EmptyDict

\* The hit-point and death-save life cycle of a character: creation,
\* levelling, long rest, lethal damage through an encounter, and death saves.
\* The character is created as "Ann" and addressed as "ann".
LifeNames == {"ann"}

Next ==
    \/ cmd_char_create(1, "g1", "Ann", "wizard") /\ UNCHANGED log
    \/ generate_character(1, 0, {}) /\ UNCHANGED log
    \/ \E n \in LifeNames : level_up_character("g1", n, 1) /\ UNCHANGED log
    \/ \E n \in LifeNames : cmd_longrest("g1", n) /\ UNCHANGED log
    \/ \E n \in LifeNames, roll \in DeathRolls : cmd_deathsave("g1", n, roll) /\ UNCHANGED log
    \/ cmd_combat_start("g1") /\ UNCHANGED log
    \/ cmd_combat_add("g1", "Ann", 3, 5, 0) /\ UNCHANGED log
    \/ \E n \in LifeNames, a \in Amounts : cmd_combat_damage("g1", n, a) /\ UNCHANGED log
    \/ \E n \in LifeNames, a \in Amounts : cmd_combat_heal("g1", n, a) /\ UNCHANGED log
    \/ cmd_combat_end("g1") /\ UNCHANGED log

Spec == Init /\ [][Next]_vars

\* Spell casting: casts suspended at the provider fetch, interleaved with
\* each other and with creation, long rest and levelling.
NextCast ==
    \/ \E t \in Tasks, cls \in {"wizard", "warlock"} : cmd_char_create(t, "g1", "Ann", cls) /\ UNCHANGED log
    \/ \E t \in Tasks, k \in KnownSets : generate_character(t, 0, k) /\ UNCHANGED log
    \/ \E t \in Tasks, sp \in SpellArgs : cmd_cast(t, "g1", "ann", sp) /\ UNCHANGED log
    \/ \E t \in Tasks, f \in BOOLEAN, sh \in Shapes : cast_spell_for_char(t, f, sh) /\ UNCHANGED log
    \/ level_up_character("g1", "ann", 1) /\ UNCHANGED log
    \/ cmd_longrest("g1", "ann") /\ UNCHANGED log

SpecCast == Init /\ [][NextCast]_vars

\* The encounter tracker, in a guild and in a direct message: starting,
\* adding, turns, damage, healing, effects, armour class and ending.
NextCombat ==
    \/ \E ctx \in {"g1", DM} : cmd_combat_start(ctx) /\ UNCHANGED log
    \/ \E ctx \in {"g1", DM}, n \in Names, i \in Initiatives : cmd_combat_add(ctx, n, 3, i, 0) /\ UNCHANGED log
    \/ \E ctx \in {"g1", DM} : cmd_combat_next(ctx) /\ UNCHANGED log
    \/ \E ctx \in {"g1", DM} : cmd_combat_damage(ctx, "ann", 3) /\ UNCHANGED log
    \/ \E ctx \in {"g1", DM} : cmd_combat_heal(ctx, "ann", 3) /\ UNCHANGED log
    \/ \E ctx \in {"g1", DM} : cmd_combat_effect(ctx, "orc", "prone") /\ UNCHANGED log
    \/ \E ctx \in {"g1", DM} : cmd_combat_setac(ctx, "orc", 15) /\ UNCHANGED log
    \/ \E ctx \in {"g1", DM} : cmd_combat_end(ctx) /\ UNCHANGED log

SpecCombat == Init /\ [][NextCombat]_vars

\* Every command in a direct message, beside a guild that has a character
\* and an encounter.
OutsideGuild ==
    \/ \E t \in Tasks : cmd_char_create(t, DM, "Ann", "wizard") /\ UNCHANGED log
    \/ level_up_character(DM, "ann", 1) /\ UNCHANGED log
    \/ cmd_longrest(DM, "ann") /\ UNCHANGED log
    \/ \E roll \in DeathRolls : cmd_deathsave(DM, "ann", roll) /\ UNCHANGED log
    \/ \E t \in Tasks : cmd_cast(t, DM, "ann", "missile") /\ UNCHANGED log
    \/ cmd_combat_start(DM) /\ UNCHANGED log
    \/ \E n \in Names : cmd_combat_add(DM, n, 3, 5, 0) /\ UNCHANGED log
    \/ cmd_combat_next(DM) /\ UNCHANGED log
    \/ cmd_combat_damage(DM, "ann", 3) /\ UNCHANGED log
    \/ cmd_combat_heal(DM, "ann", 3) /\ UNCHANGED log
    \/ cmd_combat_effect(DM, "ann", "prone") /\ UNCHANGED log
    \/ cmd_combat_setac(DM, "ann", 15) /\ UNCHANGED log
    \/ cmd_combat_end(DM) /\ UNCHANGED log

NextDM ==
    \/ cmd_char_create(1, "g1", "Ann", "wizard") /\ UNCHANGED log
    \/ generate_character(1, 0, Spells) /\ UNCHANGED log
    \/ cmd_combat_add("g1", "Ann", 3, 5, 0) /\ UNCHANGED log
    \/ \E a \in Amounts : cmd_combat_damage("g1", "ann", a) /\ UNCHANGED log
    \/ OutsideGuild

SpecDM == Init /\ [][NextDM]_vars

\* Two guilds side by side, each with a character and a combatant of the
\* same name and each with one coroutine of its own; GuildStep(a) is a step
\* of a command issued in guild a.
TaskOf(a) == IF a = "g1" THEN 1 ELSE 2

GuildStep(a) ==
    \/ cmd_char_create(TaskOf(a), a, "Ann", "warlock") /\ UNCHANGED log
    \/ tasks[TaskOf(a)].gid = a /\ generate_character(TaskOf(a), 0, Spells) /\ UNCHANGED log
    \/ cmd_deathsave(a, "ann", 1) /\ UNCHANGED log
    \/ cmd_combat_add(a, "Ann", 3, 5, 0) /\ UNCHANGED log
    \/ cmd_combat_damage(a, "ann", 5) /\ UNCHANGED log

NextIso == \E a \in Guilds : GuildStep(a)

SpecIso == Init /\ [][NextIso]_vars

\* Restarts between character commands.
NextReload ==
    \/ \E cls \in {"wizard", "fighter"} : cmd_char_create(1, "g1", "Ann", cls) /\ UNCHANGED log
    \/ generate_character(1, 0, Spells) /\ UNCHANGED log
    \/ \E sp \in {"missile", "bolt"} : cmd_cast(1, "g1", "ann", sp) /\ UNCHANGED log
    \/ cast_spell_for_char(1, TRUE, CHOOSE sh \in Shapes : TRUE) /\ UNCHANGED log
    \/ level_up_character("g1", "ann", 1) /\ UNCHANGED log
    \/ cmd_longrest("g1", "ann") /\ UNCHANGED log
    \/ cmd_combat_add("g1", "Ann", 3, 5, 0) /\ UNCHANGED log
    \/ cmd_combat_next("g1") /\ UNCHANGED log
    \/ load_data /\ UNCHANGED log

SpecReload == Init /\ [][NextReload]_vars

\* Levelling characters of every class and constitution.
NextLevel ==
    \/ \E cls \in Classes : cmd_char_create(1, "g1", "Ann", cls) /\ UNCHANGED log
    \/ \E b \in ConBonuses : generate_character(1, b, {}) /\ UNCHANGED log
    \/ \E n \in {"ann", "orc"}, r \in HitRolls : level_up_character("g1", n, r) /\ UNCHANGED log
    \/ cmd_longrest("g1", "ann") /\ UNCHANGED log

SpecLevel == Init /\ [][NextLevel]_vars

\* Commands of one guild run concurrently: char_create, cast and
\* inventory_add_api suspended at their fetches while each other and
\* levelup, long rest, death saves and encounter commands run.  Every
\* command that ends is logged; one that is refused before its fetch is
\* logged with a provider that gives nothing.
Quiescent == \A t \in Tasks : tasks[t].pc = "idle"

CanStart == LogSize(log) + Cardinality({t \in Tasks : tasks[t].pc = "await"}) < MaxLog

SerialShape == CHOOSE sh \in Shapes : LaterSteps(sh, 1) = "damage"

NextSerial ==
    \/ CanStart /\ \E t \in Tasks : cmd_char_create(t, "g1", "Ann", "wizard") /\ UNCHANGED log
    \/ \E t \in Tasks, k \in KnownSets :
         /\ generate_character(t, 0, k)
         /\ log' = Logged(Cmd("char_create", tasks[t].name, tasks[t].arg, k, TRUE, 0, 0))
    \/ CanStart /\ \E t \in Tasks :
         /\ cmd_cast(t, "g1", "ann", "missile")
         /\ log' = IF tasks'[t].pc = "await" THEN log
                   ELSE Logged(Cmd("cast", "ann", "missile", {}, FALSE, 0, 0))
    \/ \E t \in Tasks, f \in BOOLEAN :
         /\ cast_spell_for_char(t, f, SerialShape)
         /\ log' = Logged(Cmd("cast", tasks[t].name, tasks[t].arg, {}, f, 0, 0))
    \/ CanStart /\ \E t \in Tasks :
         /\ cmd_inv_add_api(t, "g1", "ann", "rope")
         /\ log' = IF tasks'[t].pc = "await" THEN log
                   ELSE Logged(Cmd("inv_add_api", "ann", "rope", {}, FALSE, 0, 0))
    \/ \E t \in Tasks, f \in BOOLEAN :
         /\ fetch_item_detail(t, f)
         /\ log' = Logged(Cmd("inv_add_api", tasks[t].name, tasks[t].arg, {}, f, 0, 0))
    \/ CanStart /\ level_up_character("g1", "ann", 1)
         /\ log' = Logged(Cmd("levelup", "ann", "", {}, TRUE, 1, 0))
    \/ CanStart /\ cmd_longrest("g1", "ann")
         /\ log' = Logged(Cmd("longrest", "ann", "", {}, TRUE, 0, 0))
    \/ CanStart /\ cmd_deathsave("g1", "ann", 1)
         /\ log' = Logged(Cmd("deathsave", "ann", "", {}, TRUE, 1, 0))
    \/ CanStart /\ cmd_combat_add("g1", "Ann", 3, 5, 0)
         /\ log' = Logged(Cmd("combat_add", "Ann", "", {}, TRUE, 3, 5))
    \/ CanStart /\ cmd_combat_damage("g1", "ann", 3)
         /\ log' = Logged(Cmd("combat_damage", "ann", "", {}, TRUE, 3, 0))

SpecSerial == Init /\ [][NextSerial]_vars

\* Long rests of a slot class with slots and of one without, in two guilds,
\* among casts, level-ups, lethal damage and restarts.
NextRest ==
    \/ \E cls \in {"wizard", "fighter"} : cmd_char_create(1, "g1", "Ann", cls) /\ UNCHANGED log
    \/ cmd_char_create(2, "g2", "Ann", "wizard") /\ UNCHANGED log
    \/ \E t \in Tasks : tasks[t].op = "char_create" /\ generate_character(t, 0, Spells) /\ UNCHANGED log
    \/ \E a \in Guilds : cmd_cast(TaskOf(a), a, "ann", "missile") /\ UNCHANGED log
    \/ \E t \in Tasks : tasks[t].op = "cast" /\ cast_spell_for_char(t, TRUE, SerialShape) /\ UNCHANGED log
    \/ level_up_character("g1", "ann", 1) /\ UNCHANGED log
    \/ \E a \in Guilds : cmd_longrest(a, "ann") /\ UNCHANGED log
    \/ combats = EmptyDict /\ cmd_combat_add("g1", "Ann", 3, 5, 0) /\ UNCHANGED log
    \/ cmd_combat_damage("g1", "ann", 3) /\ UNCHANGED log
    \/ load_data /\ UNCHANGED log

SpecRest == Init /\ [][NextRest]_vars

\* Casts of a cantrip, a level-1 and a level-2 spell, with every shape of
\* damage data the provider may return.
NextDamage ==
    \/ cmd_char_create(1, "g1", "Ann", "wizard") /\ UNCHANGED log
    \/ generate_character(1, 0, Spells) /\ UNCHANGED log
    \/ \E sp \in SpellArgs : cmd_cast(1, "g1", "ann", sp) /\ UNCHANGED log
    \/ \E f \in BOOLEAN, sh \in Shapes : cast_spell_for_char(1, f, sh) /\ UNCHANGED log
    \/ level_up_character("g1", "ann", 1) /\ UNCHANGED log
    \/ cmd_longrest("g1", "ann") /\ UNCHANGED log

SpecDamage == Init /\ [][NextDamage]_vars

\* A character and an encounter of one combatant side by side.  EncounterOp
\* is a step of an encounter command other than damage, CharacterOp a step
\* of a character command.
EncounterOp ==
    \/ cmd_combat_start("g1") /\ UNCHANGED log
    \/ (NoTurn("g1") = TRUE) /\ cmd_combat_add("g1", "Ann", 3, 5, 0) /\ UNCHANGED log
    \/ cmd_combat_next("g1") /\ UNCHANGED log
    \/ cmd_combat_heal("g1", "ann", 3) /\ UNCHANGED log
    \/ cmd_combat_effect("g1", "ann", "prone") /\ UNCHANGED log
    \/ cmd_combat_setac("g1", "ann", 15) /\ UNCHANGED log
    \/ cmd_combat_end("g1") /\ UNCHANGED log

CharacterOp ==
    \/ cmd_char_create(1, "g1", "Ann", "wizard") /\ UNCHANGED log
    \/ generate_character(1, 0, Spells) /\ UNCHANGED log
    \/ level_up_character("g1", "ann", 1) /\ UNCHANGED log
    \/ cmd_longrest("g1", "ann") /\ UNCHANGED log
    \/ \E roll \in {1, 10} : cmd_deathsave("g1", "ann", roll) /\ UNCHANGED log

NextSync ==
    \/ EncounterOp
    \/ CharacterOp
    \/ \E a \in {1, 3} : cmd_combat_damage("g1", "ann", a) /\ UNCHANGED log

SpecSync == Init /\ [][NextSync]_vars

\* Everything that writes a character's hit points, for every class, a low
\* and a high constitution and the lowest and highest hit-die rolls, beside
\* casts.
NextHP ==
    \/ \E cls \in Classes : cmd_char_create(1, "g1", "Ann", cls) /\ UNCHANGED log
    \/ \E b \in {-3, 4} : generate_character(1, b, Spells) /\ UNCHANGED log
    \/ \E r \in HitRolls : level_up_character("g1", "ann", r) /\ UNCHANGED log
    \/ cmd_longrest("g1", "ann") /\ UNCHANGED log
    \/ cmd_cast(1, "g1", "ann", "missile") /\ UNCHANGED log
    \/ cast_spell_for_char(1, TRUE, SerialShape) /\ UNCHANGED log
    \/ (NoTurn("g1") = TRUE) /\ cmd_combat_add("g1", "Ann", 3, 5, 0) /\ UNCHANGED log
    \/ cmd_combat_damage("g1", "ann", 3) /\ UNCHANGED log
    \/ \E roll \in {1, 10, 20} : cmd_deathsave("g1", "ann", roll) /\ UNCHANGED log

SpecHP == Init /\ [][NextHP]_vars

\* Death saves of a character from the lethal damage on.  The log holds the
\* rolls made since that damage; Unresolved says that the character is still
\* at 0 hp and has neither stabilized nor died since.
Unresolved ==
    /\ "ann" \in DOMAIN characters["g1"]
    /\ heap[characters["g1"]["ann"]].hp <= 0
    /\ <<"g1", "ann">> \notin hist.stable

NextSaves ==
    \/ cmd_char_create(1, "g1", "Ann", "wizard") /\ UNCHANGED log
    \/ generate_character(1, 0, {}) /\ UNCHANGED log
    \/ (NoTurn("g1") = TRUE) /\ cmd_combat_add("g1", "Ann", 3, 5, 0) /\ UNCHANGED log
    \/ cmd_combat_damage("g1", "ann", 3) /\ log' = EmptyDict
    \/ \E roll \in DeathRolls :
         /\ Unresolved /\ LogSize(log) < MaxLog
         /\ cmd_deathsave("g1", "ann", roll)
         /\ log' = Logged(Cmd("deathsave", "ann", "", {}, TRUE, roll, 0))

SpecSaves == Init /\ [][NextSaves]_vars

\* ==================================================================== claims
\* The keys <<gid, name>> under which a character is stored, and its object.
StoredKeys == UNION {{<<g, k>> : k \in DOMAIN characters[g]} : g \in GuildKeys}

CharAt(p) == heap[characters[p[1]][p[2]]]

\* C1: every stored character whose hp is above 0 has both death-save
\* counters at 0.
C1_SavesClearedWhilePositive ==
    \A p \in StoredKeys : CharAt(p).hp > 0 => CharAt(p).death_saves = NoSaves

\* C2: a death save on a character at hp <= 0 applies the roll table: a 20
\* sets hp to 1 and clears both counters; a 1 adds two failures, 10..19 one
\* success, 2..9 one failure, the other counter and the hp staying as they
\* were (the counters as saved before the checks for three).
C2_DeathSaveTransition ==
    [][\A ctx \in Guilds, n \in LifeNames, roll \in DeathRolls :
         LET gid == Str(get_guild_id(ctx))
             id  == Lookup(gid, n)
         IN (id # 0 /\ heap[id].hp <= 0 /\ cmd_deathsave(ctx, n, roll)) =>
              LET old == heap[id].death_saves
              IN /\ roll = 20 => /\ characters' = characters
                                 /\ heap'[id].hp = 1
                                 /\ heap'[id].death_saves = NoSaves
                 /\ roll = 1 => last'.mid = [success |-> old.success, failure |-> old.failure + 2]
                 /\ roll \in 10..19 =>
                      last'.mid = [success |-> old.success + 1, failure |-> old.failure]
                 /\ roll \in 2..9 =>
                      last'.mid = [success |-> old.success, failure |-> old.failure + 1]
                 /\ (roll # 20 /\ id \in DOMAIN heap') => heap'[id].hp = heap[id].hp]_vars

\* C2 witness: a dying character whose counters a roll has just brought to 2/2.
C2_Witness ==
    /\ last.res = "rolled"
    /\ last.mid = [success |-> 2, failure |-> 2]
    /\ \E p \in StoredKeys : CharAt(p).hp <= 0 /\ CharAt(p).death_saves = last.mid

\* C3: a death save removes the character exactly when the roll brought the
\* failures to 3 or more; a stored character's counters are always in 0..2;
\* and only a death save removes a character.
C3_RemovedIffThreeFailures ==
    [][/\ \A g \in GuildKeys : \A k \in DOMAIN characters'[g] :
            /\ heap'[characters'[g][k]].death_saves.success \in 0..2
            /\ heap'[characters'[g][k]].death_saves.failure \in 0..2
       /\ \A ctx \in Guilds, n \in LifeNames, roll \in DeathRolls :
            LET gid == Str(get_guild_id(ctx))
                id  == Lookup(gid, n)
            IN (id # 0 /\ heap[id].hp <= 0 /\ cmd_deathsave(ctx, n, roll)) =>
                 (Lower(n) \notin DOMAIN characters'[gid] <=> last'.mid.failure >= 3)
       /\ \A g \in GuildKeys : \A k \in DOMAIN characters[g] :
            k \notin DOMAIN characters'[g] =>
              \E ctx \in Guilds, n \in LifeNames, roll \in DeathRolls :
                 /\ Str(get_guild_id(ctx)) = g /\ Lower(n) = k
                 /\ cmd_deathsave(ctx, n, roll)]_vars

\* C3 witness: from 0/0 a roll of 1 and one more failure: the character is gone.
C3_Witness ==
    /\ last.res = "died"
    /\ last.mid = [success |-> 0, failure |-> 3]
    /\ "ann" \notin DOMAIN characters["g1"]

\* C4 as claimed: a name whose character died is never stored again.
C4_DeadStaysDead == \A p \in hist.dead : p[2] \notin DOMAIN characters[p[1]]

\* C4 amended: after a death, only a character creation under that name
\* stores a character under it again.
C4_OnlyCreateBringsBack ==
    [][\A p \in hist.dead :
         (p[2] \notin DOMAIN characters[p[1]] /\ p[2] \in DOMAIN characters'[p[1]]) =>
           \E t \in Tasks, b \in ConBonuses, k \in KnownSets :
              /\ generate_character(t, b, k)
              /\ tasks[t].gid = p[1] /\ Lower(tasks[t].name) = p[2]]_vars

\* C4 witness: a character stored under a name whose character died.
C4_Witness == \E p \in hist.dead : p[2] \in DOMAIN characters[p[1]]

\* C5: a death save that brings the successes to 3 clears both counters and
\* leaves hp <= 0, and a character that has stabilized is not removed by
\* death saves until it is damaged again.
C5_StabilizedIsTerminal ==
    [][/\ \A ctx \in Guilds, n \in LifeNames, roll \in DeathRolls :
            LET gid == Str(get_guild_id(ctx))
                id  == Lookup(gid, n)
            IN (id # 0 /\ heap[id].hp <= 0 /\ cmd_deathsave(ctx, n, roll)
                  /\ last'.mid.success >= 3) =>
                 /\ characters' = characters
                 /\ heap'[id].death_saves = NoSaves
                 /\ heap'[id].hp = heap[id].hp
       /\ \A p \in hist.stable : p[2] \in DOMAIN characters'[p[1]]]_vars

\* C6: a death save on a missing character or on one with hp > 0 is refused,
\* rolls nothing and leaves characters and encounters as they were.
C6_RefusedDeathSave ==
    [][\A ctx \in Guilds, n \in LifeNames, roll \in DeathRolls :
         LET id == Lookup(Str(get_guild_id(ctx)), n)
         IN cmd_deathsave(ctx, n, roll) =>
              /\ id = 0 =>
                   /\ last' = Reply("CharNotFound", NoSaves)
                   /\ UNCHANGED <<characters, heap, combats>>
              /\ (id # 0 /\ heap[id].hp > 0) =>
                   /\ last' = Reply("NotAtZeroHP", NoSaves)
                   /\ UNCHANGED <<characters, heap, combats>>]_vars

\* C6 witness: the refusal has been given while the character has hp > 0.
C6_Witness ==
    /\ last.res = "NotAtZeroHP"
    /\ \E p \in StoredKeys : CharAt(p).hp > 0

\* C7: combat damage that leaves the addressed combatant at hp <= 0 sets the
\* same-named character of the guild to hp 0 exactly, with both counters 0.
C7_LethalDamageMarksDying ==
    [][\A ctx \in Guilds, n \in LifeNames, a \in Amounts :
         LET gid == Str(get_guild_id(ctx))
             id  == Lookup(gid, n)
         IN (~NoEncounter(ctx) /\ cmd_combat_damage(ctx, n, a)) =>
              LET i == FirstMatch(combats[gid].order, n)
              IN (i # 0 /\ id # 0 /\ combats[gid].order[i].hp - a <= 0) =>
                   /\ combats'[gid].order[i].hp = combats[gid].order[i].hp - a
                   /\ characters' = characters
                   /\ heap'[id].hp = 0
                   /\ heap'[id].death_saves = NoSaves]_vars

\* C7 witness: a combatant below 0 whose character was set to exactly 0.
C7_Witness ==
    /\ last.res = "down"
    /\ "g1" \in DOMAIN combats
    /\ \E i \in 1..Len(combats["g1"].order) :
         LET e == combats["g1"].order[i]
         IN /\ e.hp < 0
            /\ Lookup("g1", e.name) # 0
            /\ heap[Lookup("g1", e.name)].hp = 0
            /\ heap[Lookup("g1", e.name)].death_saves = NoSaves

\* The count a cast of a level-`level` spell finds on character object c.
SlotCount(c, level) == DictGet(c.slots, IntKey(level), 0)

\* The step in which the cast suspended in coroutine t resumes and ends.
CastResumes(t) == tasks[t].pc = "await" /\ tasks[t].op = "cast" /\ tasks'[t].pc = "idle"

\* C8: no slot count is ever negative; a cast of a spell of level L > 0 that
\* finds the count 0 replies that no slot is left and leaves the slot mapping
\* as it was; one that finds a count c > 0 leaves exactly c - 1.
C8_SlotAccounting ==
    [][/\ \A id \in DOMAIN heap' : \A k \in DOMAIN heap'[id].slots : heap'[id].slots[k] >= 0
       /\ \A t \in Tasks :
            (CastResumes(t) /\ last'.res # "NoSpellData") =>
              LET id    == tasks[t].ref
                  level == SpellLevel(tasks[t].arg)
                  c     == SlotCount(heap[id], level)
              IN level > 0 =>
                   /\ c = 0 => /\ last'.res = "NoSlot"
                               /\ id \in DOMAIN heap' => heap'[id].slots = heap[id].slots
                   /\ c > 0 => /\ last'.res \in CastDone
                               /\ id \in DOMAIN heap' =>
                                    heap'[id].slots = DictSet(heap[id].slots, IntKey(level), c - 1)]_vars

\* C8 witness: the cast was refused for want of a slot and the stored
\* character's level-1 count, once positive, is 0.
C8_Witness ==
    /\ last.res = "NoSlot"
    /\ \E p \in StoredKeys :
         /\ "missile" \in CharAt(p).spells
         /\ IntKey(1) \in DOMAIN CharAt(p).slots
         /\ CharAt(p).slots[IntKey(1)] = 0

\* C9: a cast takes one slot of the spell's level exactly when the provider
\* returned the detail, the level is above 0 and a slot is left, and then it
\* keeps it whatever the later steps do (a damage expression that does not
\* parse, an exception); a cast refused for a missing character or an unknown
\* spell, a failed fetch, and a level-0 spell leave every slot mapping alone.
C9_SlotTakenIffStepsPass ==
    [][/\ \A t \in Tasks :
            CastResumes(t) =>
              LET id    == tasks[t].ref
                  level == SpellLevel(tasks[t].arg)
                  c     == SlotCount(heap[id], level)
                  pass  == last'.res # "NoSpellData" /\ level > 0 /\ c > 0
              IN /\ \A j \in (DOMAIN heap') \ {id} : heap'[j].slots = heap[j].slots
                 /\ pass => last'.res \in CastDone
                 /\ id \in DOMAIN heap' =>
                      heap'[id].slots = IF pass THEN DictSet(heap[id].slots, IntKey(level), c - 1)
                                        ELSE heap[id].slots
       /\ last'.res \in {"CharNotFound", "SpellNotKnown", "NoSpellData"} =>
            \A j \in (DOMAIN heap') \cap (DOMAIN heap) : heap'[j].slots = heap[j].slots]_vars

\* C9 witness: a cast whose damage expression did not parse has replied, and
\* the warlock's only slot is gone.
C9_Witness ==
    /\ last.res = "cast_expr"
    /\ \E p \in StoredKeys :
         /\ CharAt(p).class = "warlock"
         /\ CharAt(p).level = 1
         /\ CharAt(p).slots = [k \in {IntKey(1)} |-> 0]

\* C10: of two casts of a spell of the same level suspended together on a
\* character holding exactly one slot of that level, whichever resumes first
\* takes the slot, the other is refused for want of a slot, and the count
\* ends at 0 (a cast that raises after the slot step has taken the slot).
C10_OneSlotOneWinner ==
    \A t, u \in Tasks :
       (t # u /\ tasks[t].race /\ tasks[u].race /\ tasks[t].ref = tasks[u].ref) =>
         LET c == SlotCount(heap[tasks[t].ref], SpellLevel(tasks[t].arg))
         IN /\ SpellLevel(tasks[t].arg) = SpellLevel(tasks[u].arg)
            /\ (tasks[t].pc = "await" /\ tasks[u].pc = "await") => c = 1
            /\ (tasks[t].pc = "idle" /\ tasks[u].pc = "await") =>
                 (c = 0 /\ tasks[t].res \in CastDone)
            /\ (tasks[t].pc = "idle" /\ tasks[u].pc = "idle") =>
                 /\ c = 0
                 /\ \/ tasks[t].res \in CastDone /\ tasks[u].res = "NoSlot"
                    \/ tasks[u].res \in CastDone /\ tasks[t].res = "NoSlot"

\* C10 witness: both casts of such a pair are over, the one that started
\* second having taken the slot.
C10_Witness ==
    /\ tasks[1].race /\ tasks[2].race
    /\ tasks[1].ref = tasks[2].ref
    /\ tasks[1].pc = "idle" /\ tasks[2].pc = "idle"
    /\ tasks[1].res = "NoSlot" /\ tasks[2].res \in CastDone
    /\ SlotCount(heap[tasks[1].ref], SpellLevel(tasks[1].arg)) = 0

\* C12: whenever an encounter's order is not empty, its turn pointer is an
\* index into it: 0 <= turn < length of the order.
C12_TurnPointerInRange ==
    \A g \in DOMAIN combats :
       combats[g].order # <<>> =>
         (combats[g].turn >= 0 /\ combats[g].turn < Len(combats[g].order))

\* C12 witness: the turn has moved on to the last of three combatants.
C12_Witness ==
    /\ last.res = "turn"
    /\ "g1" \in DOMAIN combats
    /\ Len(combats["g1"].order) = 3
    /\ combats["g1"].turn = 2

\* A sequence without its p-th element.
Without(seq, p) == SubSeq(seq, 1, p - 1) \o SubSeq(seq, p + 1, Len(seq))

\* A combatant as cmd_combat_add builds it.
Entity(name, initiative) ==
    [name |-> name, hp |-> 3, initiative |-> initiative, effects |-> <<>>, ac |-> 10]

\* C13: every order is sorted by initiative, high to low, and an add leaves
\* the earlier combatants in their order and puts the new one behind every
\* combatant of the same or a higher initiative: added as 5, 10, 5 the order
\* is 10, 5, 5 with the first-added 5 first.
C13_StableDescendingOrder ==
    [][/\ \A g \in DOMAIN combats' :
            LET new == combats'[g].order
                old == IF g \in DOMAIN combats THEN combats[g].order ELSE <<>>
            IN /\ \A i \in 1..(Len(new) - 1) : new[i].initiative >= new[i + 1].initiative
               /\ Len(new) = Len(old) + 1 =>
                    \E p \in 1..Len(new) :
                       /\ Without(new, p) = old
                       /\ \A j \in 1..(p - 1) : new[j].initiative >= new[p].initiative
                       /\ \A j \in (p + 1)..Len(new) : new[j].initiative < new[p].initiative
       /\ SortDesc(Append(SortDesc(Append(SortDesc(<<Entity("Ann", 5)>>), Entity("orc", 10))),
                          Entity("ann", 5)))
            = <<Entity("orc", 10), Entity("Ann", 5), Entity("ann", 5)>>]_vars

\* C13 witness: three combatants have been added, one at 10 in front of two
\* that tie at 5.
C13_Witness ==
    /\ last.res = "added"
    /\ "g1" \in DOMAIN combats
    /\ Len(combats["g1"].order) = 3
    /\ combats["g1"].order[1].initiative = 10
    /\ combats["g1"].order[2].initiative = 5
    /\ combats["g1"].order[3].initiative = 5
    /\ combats["g1"].order[2].name # combats["g1"].order[3].name

\* The turn pointer after n more cmd_combat_next on encounter c.
RECURSIVE TurnAfter(_, _)
TurnAfter(c, n) == IF n = 0 THEN c.turn ELSE TurnAfter([c EXCEPT !.turn = NextTurn(c)], n - 1)

\* C14: on a non-empty order cmd_combat_next moves the turn to
\* (turn + 1) mod length whatever the hit points of the combatants, so that
\* as many turns as the order is long bring the pointer back; without a
\* guild, without an encounter or on an empty order it changes nothing.
C14_NextTurnCycles ==
    [][/\ \A ctx \in Ctxs :
            cmd_combat_next(ctx) =>
              LET gid == Str(get_guild_id(ctx))
              IN IF ctx # DM /\ gid \in DOMAIN combats /\ Len(combats[gid].order) > 0
                 THEN /\ combats'[gid].order = combats[gid].order
                      /\ combats'[gid].turn = (combats[gid].turn + 1) % Len(combats[gid].order)
                      /\ \A g \in (DOMAIN combats) \ {gid} : combats'[g] = combats[g]
                      /\ UNCHANGED <<characters, heap>>
                 ELSE UNCHANGED <<characters, heap, combats>>
       /\ \A g \in DOMAIN combats' :
            combats'[g].order # <<>> =>
              TurnAfter(combats'[g], Len(combats'[g].order)) = combats'[g].turn]_vars

\* C14 witness: the turn has passed to a combatant that is down, in an order
\* of more than one.
C14_Witness ==
    /\ last.res = "turn"
    /\ "g1" \in DOMAIN combats
    /\ Len(combats["g1"].order) > 1
    /\ combats["g1"].order[combats["g1"].turn + 1].hp <= 0

\* C15: an encounter comes into being only by cmd_combat_start and goes only
\* by cmd_combat_end, and add, next, damage, heal, effect, setac and end in a
\* guild without an encounter are refused and leave the store as it was.
C15_EncounterOnlyBetweenStartAndEnd ==
    [][/\ \A g \in GuildKeys :
            /\ (g \notin DOMAIN combats /\ g \in DOMAIN combats') =>
                 \E ctx \in Ctxs : Str(get_guild_id(ctx)) = g /\ cmd_combat_start(ctx)
            /\ (g \in DOMAIN combats /\ g \notin DOMAIN combats') =>
                 \E ctx \in Ctxs : Str(get_guild_id(ctx)) = g /\ cmd_combat_end(ctx)
       /\ \A ctx \in Guilds :
            (/\ Str(get_guild_id(ctx)) \notin DOMAIN combats
             /\ \/ \E n \in Names, i \in Initiatives : cmd_combat_add(ctx, n, 3, i, 0)
                \/ cmd_combat_next(ctx)
                \/ cmd_combat_damage(ctx, "ann", 3)
                \/ cmd_combat_heal(ctx, "ann", 3)
                \/ cmd_combat_effect(ctx, "orc", "prone")
                \/ cmd_combat_setac(ctx, "orc", 15)
                \/ cmd_combat_end(ctx)) =>
              /\ last'.res \in {"NoEncounter", "NoTurn"}
              /\ UNCHANGED <<characters, heap, combats>>]_vars

\* C16: no two combatants of one encounter have names that are equal when
\* lowercased.
C16_UniqueCombatantNames ==
    \A g \in DOMAIN combats :
       \A i, j \in 1..Len(combats[g].order) :
          i # j => Lower(combats[g].order[i].name) # Lower(combats[g].order[j].name)

\* C17: a command issued outside a guild is refused and leaves every
\* character and every encounter, under whatever key, as it was.
C17_NothingOutsideGuild ==
    [][OutsideGuild =>
         /\ UNCHANGED <<characters, heap, combats>>
         /\ last'.res \in {"ServerOnly", "CharNotFound", "NoEncounter", "NoTurn"}]_vars

\* The characters, by key and field, and the encounter of guild key g.
GuildView(g) ==
    [chars |-> [k \in DOMAIN characters[g] |-> heap[characters[g][k]]],
     enc   |-> IF g \in DOMAIN combats THEN <<combats[g]>> ELSE <<>>]

\* C18: a step of a command issued in one guild leaves the characters and the
\* encounter of every other guild as they were, also while commands of both
\* guilds are suspended and also when both hold a character and a combatant
\* of the same name.
C18_GuildIsolation ==
    [][\A a \in Guilds :
         GuildStep(a) => \A b \in GuildKeys \ {a} : GuildView(b)' = GuildView(b)]_vars

\* C18 witness: both guilds hold a character "ann" and a combatant "Ann";
\* the one of g1 is down and dying, the one of g2 is untouched.
C18_Witness ==
    /\ Lookup("g1", "ann") # 0 /\ Lookup("g2", "ann") # 0
    /\ heap[Lookup("g1", "ann")].hp = 0
    /\ heap[Lookup("g2", "ann")].hp > 0
    /\ "g1" \in DOMAIN combats /\ "g2" \in DOMAIN combats
    /\ combats["g1"].order # <<>> /\ combats["g2"].order # <<>>
    /\ combats["g1"].order[1].hp <= 0
    /\ combats["g2"].order[1].hp = 3
    /\ last.res = "down"

\* C19: a restart brings back every character and every encounter equal in
\* every field, the keys of the slot mappings included.
C19_ReloadIsIdentity ==
    [][load_data =>
         /\ characters' = characters
         /\ combats' = combats
         /\ \A g \in GuildKeys : \A k \in DOMAIN characters[g] :
              heap'[characters'[g][k]] = heap[characters[g][k]]]_vars

\* floor((con - 10) / 2), written without a division of a negative number
FloorHalf(con) == IF con >= 10 THEN (con - 10) \div 2 ELSE 0 - ((11 - con) \div 2)

\* C20: a levelup of a stored character adds exactly 1 to its level, adds
\* hp_gain = max(1, r + floor((CON - 10) / 2)) to its max_hp, r being the
\* roll in 1..hit die of its class, and sets hp to the new max_hp (with hit
\* die 10 and CON 14 the gain is within 3..12); for a name with no character
\* it replies that there is none and changes nothing.
C20_LevelUpGain ==
    [][\A ctx \in Guilds, n \in {"ann", "orc"}, r \in HitRolls :
         level_up_character(ctx, n, r) =>
           LET id == Lookup(Str(get_guild_id(ctx)), n)
           IN IF id = 0
              THEN /\ last'.res = "CharNotFound"
                   /\ UNCHANGED <<characters, heap, combats>>
              ELSE LET c       == heap[id]
                       rolled  == r + FloorHalf(c.con)
                       hp_gain == IF rolled >= 1 THEN rolled ELSE 1
                   IN /\ r \in 1..LEVEL_UP_HP(c.class)
                      /\ characters' = characters
                      /\ heap'[id].level = c.level + 1
                      /\ heap'[id].max_hp = c.max_hp + hp_gain
                      /\ heap'[id].hp = heap'[id].max_hp
                      /\ (LEVEL_UP_HP(c.class) = 10 /\ c.con = 14) => hp_gain \in 3..12
                      /\ \A j \in (DOMAIN heap) \ {id} : heap'[j] = heap[j]]_vars

\* C20 witness: a fighter of CON 14 has levelled on a roll of 10, from a
\* max_hp of 10 to 22, with hp 22.
C20_Witness ==
    /\ last.res = "levelled"
    /\ \E p \in StoredKeys :
         /\ CharAt(p).class = "fighter" /\ CharAt(p).con = 14 /\ CharAt(p).level = 2
         /\ CharAt(p).max_hp = 22 /\ CharAt(p).hp = 22

\* C11: whenever no command of the guild is suspended, the guild's
\* characters and encounter are what the commands that ran would have left
\* had they run one at a time, in some order.
C11_SerializableOutcome ==
    Quiescent => SerialReaches(EmptyStore, LogSeq(log), StoreView)

\* C11 witness: a cast was suspended at its fetch while the character was
\* created anew; it then spent a slot of the object it held and reported the
\* cast, and the stored character has both its slots.
C11_Witness ==
    /\ Quiescent
    /\ last.res = "cast_damage"
    /\ DictGet(log, Cmd("cast", "ann", "missile", {}, TRUE, 0, 0), 0) = 1
    /\ LogSize(log) = 3
    /\ "ann" \in DOMAIN characters["g1"]
    /\ heap[characters["g1"]["ann"]].slots[IntKey(1)] = 2
    /\ \A c \in DOMAIN log : c.op \in {"char_create", "cast"}

\* C21: a long rest of a stored character leaves its slot mapping equal to
\* the table of its class as the program defines it (for a wizard 2, 0 and 0
\* slots of levels 1, 2 and 3 under int keys, for a fighter no slots) and its
\* hp equal to its max_hp, whatever was cast, levelled, rested or reloaded
\* before, changes nothing else, and a second long rest would change nothing.
C21_LongRestRestoresDefaults ==
    [][\A a \in Guilds :
         LET id == Lookup(a, "ann")
         IN (id # 0 /\ cmd_longrest(a, "ann")) =>
              /\ heap'[id].class = "wizard" =>
                   heap'[id].slots = [k \in {IntKey(1), IntKey(2), IntKey(3)} |->
                                        IF k = IntKey(1) THEN 2 ELSE 0]
              /\ heap'[id].class = "fighter" => heap'[id].slots = EmptyDict
              /\ heap'[id].hp = heap[id].max_hp
              /\ heap'[id] = [heap[id] EXCEPT !.slots = heap'[id].slots, !.hp = heap'[id].hp]
              /\ LongRestObject(heap'[id]) = heap'[id]
              /\ characters' = characters /\ combats' = combats
              /\ \A j \in (DOMAIN heap) \ {id} : heap'[j] = heap[j]]_vars

\* C21 witness: a long rest has just emptied the mapping of a levelled
\* fighter, while the wizard of the other guild has spent a slot.
C21_Witness ==
    /\ last.res = "rested"
    /\ \E p \in StoredKeys, q \in StoredKeys :
         /\ p[1] # q[1]
         /\ CharAt(p).class = "fighter" /\ CharAt(p).level = 2 /\ CharAt(p).slots = EmptyDict
         /\ CharAt(q).class = "wizard" /\ DictGet(CharAt(q).slots, IntKey(1), 0) = 1

\* The damage expression by the stated precedence: the slot-level entry of
\* the requested level, else that of the spell's own level, else the first
\* character-level value, else none.  requested = 0 is no request.
ResolveAsStated(detail, requested, level) ==
    IF detail.has_slot /\ requested # 0 /\ StrKey(requested) \in DOMAIN detail.slot
    THEN detail.slot[StrKey(requested)]
    ELSE IF detail.has_slot /\ StrKey(level) \in DOMAIN detail.slot
    THEN detail.slot[StrKey(level)]
    ELSE IF detail.has_chr /\ detail.chr # <<>>
    THEN detail.chr[1]
    ELSE NoExpr

\* C22: a cast that gets past the slot step and does not raise reports a
\* damage expression exactly when the stated precedence yields one; in
\* particular with a slot-level table lacking the spell's level and a
\* non-empty character-level table it reports the first character-level value.
C22_DamageExprFallsThrough ==
    [][\A sh \in Shapes :
         (cast_spell_for_char(1, TRUE, sh) /\ last'.res \in CastDone \ {"Raised"}) =>
           LET expr == ResolveAsStated(sh, 0, SpellLevel(tasks[1].arg))
           IN /\ expr = get_damage_expr_from_spell(sh, SpellLevel(tasks[1].arg))
              /\ (expr # NoExpr) = (last'.res \in {"cast_damage", "cast_expr"})]_vars

\* C23: a levelup of a stored character whose class has spell slots adds 1
\* to its count of level-1 slots and changes no other slot level; for a class
\* without spell slots, such as fighter, it leaves the slot mapping as it was.
C23_LevelUpSlotOnlyForCasters ==
    [][\A n \in {"ann", "orc"}, r \in HitRolls :
         LET id == Lookup("g1", n)
         IN (id # 0 /\ level_up_character("g1", n, r)) =>
              IF ClassSlotsOrEmpty(heap[id].class) # EmptyDict
              THEN heap'[id].slots =
                     DictSet(heap[id].slots, IntKey(1), DictGet(heap[id].slots, IntKey(1), 0) + 1)
              ELSE heap'[id].slots = heap[id].slots]_vars

\* C24: a step of start, add, next, heal, effect, setac or end, and a damage
\* that leaves the combatant above 0, leave every character as it was (a
\* heal of a combatant back above 0 leaves the character at hp 0 with its
\* death saves); a step of a character command leaves every encounter as it
\* was.
C24_OneWaySync ==
    [][/\ EncounterOp => StoreView.chars' = StoreView.chars
       /\ (\E a \in {1, 3} : cmd_combat_damage("g1", "ann", a) /\ last'.res = "damaged") =>
            StoreView.chars' = StoreView.chars
       /\ CharacterOp => combats' = combats]_vars

\* C24 witness: the combatant has just been healed back above 0 while the
\* character of that name is at hp 0 with a failed death save.
C24_Witness ==
    /\ last.res = "healed"
    /\ "g1" \in DOMAIN combats
    /\ \E i \in 1..Len(combats["g1"].order) :
         /\ i = FirstMatch(combats["g1"].order, "ann")
         /\ combats["g1"].order[i].hp > 0
    /\ "ann" \in DOMAIN characters["g1"]
    /\ heap[characters["g1"]["ann"]].hp = 0
    /\ heap[characters["g1"]["ann"]].death_saves.failure > 0

\* C25: when a combatant is added to an encounter whose order is not empty,
\* the combatant at the turn pointer after the add is the one that was at the
\* turn pointer before it.
C25_AddKeepsCurrentCombatant ==
    [][\A g \in DOMAIN combats :
         (/\ combats[g].order # <<>>
          /\ last'.res = "added"
          /\ g \in DOMAIN combats'
          /\ Len(combats'[g].order) = Len(combats[g].order) + 1) =>
           combats'[g].order[combats'[g].turn + 1] = combats[g].order[combats[g].turn + 1]]_vars

\* C26: every stored character has max_hp >= 1 and 0 <= hp <= max_hp.
C26_HitPointsInRange ==
    \A p \in StoredKeys :
      /\ CharAt(p).max_hp >= 1
      /\ CharAt(p).hp >= 0
      /\ CharAt(p).hp <= CharAt(p).max_hp

\* C26 witness: a levelled character, brought to 0 by lethal damage, has
\* just been revived by a natural 20 to 1 hp, below its max_hp.
C26_Witness ==
    /\ last.res = "revived"
    /\ \E p \in StoredKeys :
         CharAt(p).level = 2 /\ CharAt(p).hp = 1 /\ CharAt(p).max_hp > 1

\* C27: a character that lethal damage left at 0 hp with both counters at 0
\* and that has since neither revived, stabilized nor died has made at most 4
\* death saves: the fifth roll at the latest revives it, stabilizes it or
\* removes it.
C27_ResolvedWithinFiveRolls ==
    Unresolved => LogSize(log) <= 4

\* C27 witness: the fifth roll since the lethal damage has just stabilized
\* the character, after two successes and two failures.
C27_Witness ==
    /\ LogSize(log) = 5
    /\ last = Reply("stabilized", [success |-> 3, failure |-> 2])
    /\ ~Unresolved

====
